---- MODULE Spec2Model ----
(***************************************************************************)
(* Philosophy Social Media Agent: one run of main() (src/src/main.py),     *)
(* which builds the three components, asks the model for a quote           *)
(* (src/src/ai_engine.py), renders the quote card                          *)
(* (src/src/image_generator.py) and publishes the post                     *)
(* (src/src/blotato_client.py).                                            *)
(*                                                                         *)
(* Strings are sequences of one-character strings.  What the environment   *)
(* decides (the environment variables, the model's reply, the size of each *)
(* JPEG export, the posting API's answer) is drawn from small sets.        *)
(***************************************************************************)
EXTENDS Integers, Sequences, FiniteSets, TLC

VARIABLES
    pc,           \* position of the run inside main() and its callees
    env,          \* os.environ: GEMINI_API_KEY, BLOTATO_API_KEY, BLOTATO_ACCOUNT_ID
    gemini_reply, \* what client.models.generate_content answered
    quote_data,   \* the dictionary generate_quote returned
    text,         \* _wrap_text: argument text
    max_width,    \* _wrap_text: argument max_width
    lines,        \* _wrap_text: returned list of lines
    background,   \* what _get_background_image found
    exports,      \* the exports written to output_path, in order: quality and bytes
    file_size,    \* os.path.getsize(output_path)
    warnings,     \* warnings printed so far
    api_key,      \* BlotatoClient.api_key
    account_id,   \* BlotatoClient.account_id
    platform,     \* publish_post: argument platform
    http_reply,   \* what requests.post answered
    payload,      \* JSON body of the posting request
    headers,      \* headers of the posting request
    result,       \* what publish_post returned
    error,        \* the exception that was raised
    calls,        \* external calls made so far, in order
    exit_code     \* what main() returned

vars == <<pc, env, gemini_reply, quote_data, text, max_width, lines, background,
          exports, file_size, warnings, api_key, account_id, platform,
          http_reply, payload, headers, result, error, calls, exit_code>>

(***************************************************************************)
(* Bounds of the model.                                                    *)
(***************************************************************************)
MaxTextLen == 5      \* longest text given to _wrap_text
MaxWidth == 3        \* widest max_width given to _wrap_text
MaxValueLen == 4     \* longest quote in the model's answer
MaxRawLen == 3       \* longest BLOTATO_API_KEY in the environment
MaxAccountLen == 2   \* longest BLOTATO_ACCOUNT_ID in the environment
MaxBodyLen == 2      \* longest body of the posting API's answer
MaxUpper == 1        \* most upper-case letters in a platform name, unless all are

(***************************************************************************)
(* Strings.                                                                *)
(***************************************************************************)
None == <<"None">>   \* Python's None, where a string is expected

Whitespace == {" ", "\n"}

RECURSIVE SeqsUpTo(_, _)
SeqsUpTo(S, n) ==
    IF n = 0 THEN {<<>>}
    ELSE LET shorter == SeqsUpTo(S, n - 1)
         IN  shorter \cup {Append(s, c) : s \in shorter, c \in S}

RECURSIVE lstrip(_, _)
lstrip(s, chars) ==
    IF s # <<>> /\ Head(s) \in chars THEN lstrip(Tail(s), chars) ELSE s

RECURSIVE rstrip(_, _)
rstrip(s, chars) ==
    IF s # <<>> /\ s[Len(s)] \in chars
    THEN rstrip(SubSeq(s, 1, Len(s) - 1), chars)
    ELSE s

\* str.strip(chars); str.strip() is strip(s, Whitespace)
strip(s, chars) == rstrip(lstrip(s, chars), chars)

\* sub in s
Contains(s, sub) ==
    \E i \in 1..(Len(s) - Len(sub) + 1) : SubSeq(s, i, i + Len(sub) - 1) = sub

\* str.split(): the maximal runs of non-whitespace characters
RECURSIVE SplitFrom(_, _, _)
SplitFrom(s, word, acc) ==
    IF s = <<>> THEN (IF word = <<>> THEN acc ELSE Append(acc, word))
    ELSE IF Head(s) \in Whitespace
         THEN SplitFrom(Tail(s), <<>>, IF word = <<>> THEN acc ELSE Append(acc, word))
         ELSE SplitFrom(Tail(s), Append(word, Head(s)), acc)

split(s) == SplitFrom(s, <<>>, <<>>)

\* ' '.join(words)
RECURSIVE join(_)
join(words) ==
    IF words = <<>> THEN <<>>
    ELSE IF Len(words) = 1 THEN words[1]
    ELSE words[1] \o <<" ">> \o join(Tail(words))

(***************************************************************************)
(* ImageGenerator._wrap_text                                               *)
(***************************************************************************)
\* Advance of one character in the font: "W" is a wide glyph, a space advances too.
CharWidth(c) == IF c = "W" THEN 3 ELSE 1

\* bbox = font.getbbox(s); bbox[2] - bbox[0]
RECURSIVE text_width(_)
text_width(s) == IF s = <<>> THEN 0 ELSE CharWidth(Head(s)) + text_width(Tail(s))

\* the for loop over words, then the flush of the last line
RECURSIVE WrapLoop(_, _, _, _)
WrapLoop(words, current_line, out, width) ==
    IF words = <<>>
    THEN IF current_line # <<>> THEN Append(out, join(current_line)) ELSE out
    ELSE LET word == Head(words)
             test_line == join(Append(current_line, word))
         IN  IF text_width(test_line) <= width
             THEN WrapLoop(Tail(words), Append(current_line, word), out, width)
             ELSE WrapLoop(Tail(words), <<word>>,
                           IF current_line # <<>>
                           THEN Append(out, join(current_line)) ELSE out,
                           width)

\* A wrapper that keeps an over-wide word on the line it was tested with.
RECURSIVE WrapLoopKeep(_, _, _, _)
WrapLoopKeep(words, current_line, out, width) ==
    IF words = <<>>
    THEN IF current_line # <<>> THEN Append(out, join(current_line)) ELSE out
    ELSE LET word == Head(words)
             test_line == join(Append(current_line, word))
         IN  IF text_width(test_line) <= width
             THEN WrapLoopKeep(Tail(words), Append(current_line, word), out, width)
             ELSE WrapLoopKeep(Tail(words), <<>>, Append(out, test_line), width)

_wrap_text_keep(t, width) ==
    LET out == WrapLoopKeep(split(t), <<>>, <<>>, width)
    IN  IF out # <<>> THEN out ELSE <<t>>

_wrap_text(t, width) ==
    LET out == WrapLoop(split(t), <<>>, <<>>, width)
    IN  IF out # <<>> THEN out ELSE <<t>>

WrapChars == {"a", "W", " "}
WrapTexts == SeqsUpTo(WrapChars, MaxTextLen)
WrapWidths == 2..MaxWidth

\* the words of all lines, in order
RECURSIVE WordsOf(_)
WordsOf(ls) == IF ls = <<>> THEN <<>> ELSE split(Head(ls)) \o WordsOf(Tail(ls))


(***************************************************************************)
(* Values shared by the run.                                               *)
(***************************************************************************)
Absent == <<"<absent>">>   \* an unset environment variable, a key not in a dict

NoError == [type |-> "none", msg |-> <<>>]

NoQuote == [quote |-> None, author |-> None, context |-> None]

NoReply == [ok |-> FALSE, text |-> <<>>]

NoResponse == [received |-> FALSE, status_code |-> 0, text |-> <<>>,
               is_json |-> FALSE, json_error |-> "none"]

NoPayload == [accountId |-> None, text |-> <<>>, platform |-> <<>>,
              mediaUrls |-> <<>>, targetType |-> <<>>]

NoResult == [returned |-> FALSE, value |-> <<>>]

\* A test that only notices a variable that is not set.
IsUnset(v) == v = Absent

\* `not value` for an optional string
IsFalsy(v) == v = Absent \/ v = <<>>

(***************************************************************************)
(* AIEngine                                                                *)
(***************************************************************************)
\* AIEngine.__init__
AIEngine_init ==
    /\ pc = "init_ai"
    /\ IF IsFalsy(env.GEMINI_API_KEY)
       THEN /\ error' = [type |-> "ValueError",
                         msg |-> <<"GEMINI_API_KEY must be provided or set as environment variable">>]
            /\ pc' = "raised"
       ELSE /\ error' = error
            /\ pc' = "init_img"
    /\ UNCHANGED <<env, gemini_reply, quote_data, text, max_width, lines, background,
                   exports, file_size, warnings, api_key, account_id, platform,
                   http_reply, payload, headers, result, calls, exit_code>>

Tick == "^"   \* stands for the backquote character, which a TLA+ string cannot hold
Fence == <<Tick, Tick, Tick>>
FenceJson == Fence \o <<"j", "s", "o", "n">>

StartsWith(s, prefix) ==
    Len(s) >= Len(prefix) /\ SubSeq(s, 1, Len(prefix)) = prefix

DropFirst(s, n) == SubSeq(s, n + 1, Len(s))

\* re.sub of the pattern followed by any run of whitespace: every match,
\* left to right, is removed
RECURSIVE re_sub(_, _)
re_sub(pattern, s) ==
    IF s = <<>> THEN <<>>
    ELSE IF StartsWith(s, pattern)
         THEN re_sub(pattern, lstrip(DropFirst(s, Len(pattern)), Whitespace))
         ELSE <<Head(s)>> \o re_sub(pattern, Tail(s))

\* text.strip(), the two re.sub calls, text.strip()
CleanResponse(s) ==
    strip(re_sub(Fence, re_sub(FenceJson, strip(s, Whitespace))), Whitespace)

(* JSON text.  An object is written "{" field "," field ... "}", a field is     *)
(* a key token ("quote:" stands for the quoted key and its colon), a double     *)
(* quote, the characters of the value, a double quote.                          *)
Keys == <<"quote", "author", "context">>
KeyToken(k) ==
    CASE k = "quote" -> "quote:" [] k = "author" -> "author:" [] k = "context" -> "context:"
KeyTokens == {"quote:", "author:", "context:"}
KeyOf(tok) == CHOOSE i \in 1..3 : KeyToken(Keys[i]) = tok

EmptyObject == [quote |-> Absent, author |-> Absent, context |-> Absent]
ParseError == [ok |-> FALSE, obj |-> EmptyObject]

\* index of the first double quote of s, 0 when there is none
RECURSIVE FirstQuote(_, _)
FirstQuote(s, i) ==
    IF i > Len(s) THEN 0 ELSE IF s[i] = "\"" THEN i ELSE FirstQuote(s, i + 1)

\* the fields of an object, s being the text after "{" or after ","
RECURSIVE ParseFields(_, _)
ParseFields(s, obj) ==
    IF Len(s) < 3 \/ s[1] \notin KeyTokens \/ s[2] # "\"" THEN ParseError
    ELSE LET rest == DropFirst(s, 2)
             close == FirstQuote(rest, 1)
         IN  IF close = 0 THEN ParseError
             ELSE LET value == SubSeq(rest, 1, close - 1)
                      after == DropFirst(rest, close)
                      key == Keys[KeyOf(s[1])]
                      obj2 == [obj EXCEPT ![key] = value]
                  IN  IF after = <<"}">> THEN [ok |-> TRUE, obj |-> obj2]
                      ELSE IF after # <<>> /\ Head(after) = ","
                           THEN ParseFields(Tail(after), obj2)
                           ELSE ParseError

\* json.loads, for the texts of this model
json_loads(s) ==
    IF s = <<"{", "}">> THEN [ok |-> TRUE, obj |-> EmptyObject]
    ELSE IF s # <<>> /\ Head(s) = "{" THEN ParseFields(Tail(s), EmptyObject)
    ELSE ParseError

\* json.dumps of an object of the three keys (the absent ones left out)
RECURSIVE EncodeFields(_, _, _)
EncodeFields(obj, i, first) ==
    IF i > 3 THEN <<>>
    ELSE IF obj[Keys[i]] = Absent THEN EncodeFields(obj, i + 1, first)
    ELSE (IF first THEN <<>> ELSE <<",">>)
         \o <<KeyToken(Keys[i]), "\"">> \o obj[Keys[i]] \o <<"\"">>
         \o EncodeFields(obj, i + 1, FALSE)

Encode(obj) == <<"{">> \o EncodeFields(obj, 1, TRUE) \o <<"}">>

\* how the model's answer wraps the JSON text
Wrapped(how, s) ==
    CASE how = "json"  -> FenceJson \o <<"\n">> \o s \o <<"\n">> \o Fence
      [] how = "plain" -> Fence \o <<"\n">> \o s \o <<"\n">> \o Fence
      [] how = "space" -> <<" ">> \o s \o <<"\n">>
      [] OTHER         -> s

\* the keys the validation requires
RequiredKeys == {"quote", "author", "context"}

\* the exception leaving generate_quote when the validation raises ValueError:
\* `except Exception` catches it and raises RuntimeError
SchemaErrorType == "RuntimeError"

\* the body of generate_quote after the remote call
QuoteOutcome(reply) ==
    IF ~reply.ok
    THEN [error |-> [type |-> "RuntimeError",
                     msg |-> <<"Error generating quote: ", "remote call failed">>],
          value |-> NoQuote]
    ELSE LET parsed == json_loads(CleanResponse(reply.text))
         IN  IF ~parsed.ok
             THEN [error |-> [type |-> "ValueError",
                              msg |-> <<"Failed to parse AI response as JSON: ">>],
                   value |-> NoQuote]
             ELSE IF \E k \in RequiredKeys : parsed.obj[k] = Absent
             THEN [error |-> [type |-> SchemaErrorType,
                              msg |-> <<"Error generating quote: ",
                                        "Missing required fields in AI response">>],
                   value |-> NoQuote]
             ELSE [error |-> NoError,
                   value |-> [quote |-> parsed.obj.quote,
                              author |-> parsed.obj.author,
                              context |-> IF parsed.obj.context = Absent
                                          THEN <<>> ELSE parsed.obj.context]]

\* AIEngine.generate_quote, as main calls it (topic None)
generate_quote(Replies) ==
    /\ pc = "generate_quote"
    /\ \E reply \in Replies :
          LET out == QuoteOutcome(reply)
          IN  /\ gemini_reply' = reply
              /\ calls' = Append(calls, "generate_content")
              /\ quote_data' = out.value
              /\ error' = out.error
              /\ pc' = IF out.error = NoError THEN "render" ELSE "raised"
    /\ UNCHANGED <<env, text, max_width, lines, background, exports,
                   file_size, warnings, api_key, account_id, platform, http_reply,
                   payload, headers, result, exit_code>>


(***************************************************************************)
(* ImageGenerator                                                          *)
(***************************************************************************)
image_size == 1080
margin == 80
text_area_width == image_size - (2 * margin)

max_size == 5 * 1024 * 1024

FirstQuality == 95
LowerQualities == <<85, 75, 65, 55>>

\* `file_size > max_size`: the first export is too big
ExceedsLimit(size) == size > max_size

\* A loop test that lets a file of exactly max_size bytes count as too big.
FitsStrictly(size) == size < max_size

\* `os.path.getsize(output_path) <= max_size`: the loop breaks
Fits(size) == size <= max_size

\* what _get_background_image can find in templates_dir
\* ("alpha": a template with an alpha channel, which JPEG cannot hold)
Backgrounds == {"none", "loaded", "alpha", "unreadable"}

\* ImageGenerator.__init__
ImageGenerator_init ==
    /\ pc = "init_img"
    /\ pc' = "init_blotato"
    /\ UNCHANGED <<env, gemini_reply, quote_data, text, max_width, lines, background,
                   exports, file_size, warnings, api_key, account_id, platform,
                   http_reply, payload, headers, result, error, calls, exit_code>>

\* ImageGenerator._wrap_text called on its own
wrap_text_call ==
    /\ pc = "wrap"
    /\ lines' = _wrap_text(text, max_width)
    /\ pc' = "wrapped"
    /\ UNCHANGED <<env, gemini_reply, quote_data, text, max_width, background,
                   exports, file_size, warnings, api_key, account_id, platform,
                   http_reply, payload, headers, result, error, calls, exit_code>>

\* generate_quote_card up to the drawing: the canvas and the wrapped quote
generate_quote_card(Found) ==
    /\ pc = "render"
    /\ \E bg \in Found :
          /\ background' = bg
          /\ warnings' = IF bg = "unreadable"
                         THEN warnings \cup {"Could not load background"}
                         ELSE warnings
    /\ text' = quote_data.quote
    /\ max_width' = text_area_width
    /\ lines' = _wrap_text(quote_data.quote, text_area_width)
    /\ calls' = Append(calls, "generate_quote_card")
    /\ pc' = "save"
    /\ UNCHANGED <<env, gemini_reply, quote_data, exports, file_size, api_key,
                   account_id, platform, http_reply, payload, headers, result,
                   error, exit_code>>

\* img.save at quality 95 and the test of the file size
save_first(Sizes) ==
    /\ pc = "save"
    /\ IF background = "alpha"
       THEN /\ error' = [type |-> "OSError", msg |-> <<"cannot write mode RGBA as JPEG">>]
            /\ pc' = "raised"
            /\ UNCHANGED <<exports, file_size>>
       ELSE \E size \in Sizes :
               /\ exports' = <<[quality |-> FirstQuality, size |-> size]>>
               /\ file_size' = size
               /\ pc' = IF ExceedsLimit(size) THEN "reexport" ELSE "upload_media"
               /\ error' = error
    /\ UNCHANGED <<env, gemini_reply, quote_data, text, max_width, lines, background,
                   warnings, api_key, account_id, platform, http_reply, payload,
                   headers, result, calls, exit_code>>

\* one turn of `for q in [85, 75, 65, 55]`
save_lower(Sizes) ==
    /\ pc = "reexport"
    /\ Len(exports) <= Len(LowerQualities)
    /\ \E size \in Sizes :
          /\ exports' = Append(exports, [quality |-> LowerQualities[Len(exports)],
                                         size |-> size])
          /\ file_size' = size
          /\ pc' = IF Fits(size) \/ Len(exports) = Len(LowerQualities)
                   THEN "upload_media" ELSE "reexport"
    /\ UNCHANGED <<env, gemini_reply, quote_data, text, max_width, lines, background,
                   warnings, api_key, account_id, platform, http_reply, payload,
                   headers, result, error, calls, exit_code>>

(***************************************************************************)
(* BlotatoClient                                                           *)
(***************************************************************************)
\* raw.strip().strip('"').strip("'")
CleanCredential(raw) == strip(strip(strip(raw, Whitespace), {"\""}), {"'"})

\* BlotatoClient.__init__
BlotatoClient_init ==
    /\ pc = "init_blotato"
    /\ IF IsFalsy(env.BLOTATO_API_KEY)
       THEN /\ error' = [type |-> "ValueError",
                         msg |-> <<"BLOTATO_API_KEY must be provided or set as environment variable">>]
            /\ pc' = "raised"
            /\ UNCHANGED <<api_key, account_id>>
       ELSE IF IsFalsy(env.BLOTATO_ACCOUNT_ID)
       THEN /\ error' = [type |-> "ValueError",
                         msg |-> <<"BLOTATO_ACCOUNT_ID must be provided or set as environment variable">>]
            /\ pc' = "raised"
            /\ UNCHANGED <<api_key, account_id>>
       ELSE /\ api_key' = CleanCredential(env.BLOTATO_API_KEY)
            /\ account_id' = CleanCredential(env.BLOTATO_ACCOUNT_ID)
            /\ error' = error
            /\ pc' = "generate_quote"
    /\ UNCHANGED <<env, gemini_reply, quote_data, text, max_width, lines, background,
                   exports, file_size, warnings, platform, http_reply, payload,
                   headers, result, calls, exit_code>>

\* upload_media, and the branch of publish_with_image that follows its None
upload_media ==
    /\ pc = "upload_media"
    /\ warnings' = warnings
                   \cup (IF file_size > 5 * 1024 * 1024
                         THEN {"Image file size exceeds Twitter limit"} ELSE {})
                   \cup {"Media upload failed, publishing text-only post"}
    /\ pc' = "publish_post"
    /\ UNCHANGED <<env, gemini_reply, quote_data, text, max_width, lines, background,
                   exports, file_size, api_key, account_id, platform, http_reply,
                   payload, headers, result, error, calls, exit_code>>

Uppers == <<"A", "B", "C", "D", "E", "F", "G", "H", "I", "J", "K", "L", "M",
            "N", "O", "P", "Q", "R", "S", "T", "U", "V", "W", "X", "Y", "Z">>
Lowers == <<"a", "b", "c", "d", "e", "f", "g", "h", "i", "j", "k", "l", "m",
            "n", "o", "p", "q", "r", "s", "t", "u", "v", "w", "x", "y", "z">>

\* str.lower()
str_lower(s) ==
    [i \in 1..Len(s) |->
        IF \E j \in 1..26 : Uppers[j] = s[i]
        THEN Lowers[CHOOSE j \in 1..26 : Uppers[j] = s[i]]
        ELSE s[i]]

\* str.upper()
str_upper(s) ==
    [i \in 1..Len(s) |->
        IF \E j \in 1..26 : Lowers[j] = s[i]
        THEN Uppers[CHOOSE j \in 1..26 : Lowers[j] = s[i]]
        ELSE s[i]]

twitter == <<"t", "w", "i", "t", "t", "e", "r">>
instagram == <<"i", "n", "s", "t", "a", "g", "r", "a", "m">>
linkedin == <<"l", "i", "n", "k", "e", "d", "i", "n">>
facebook == <<"f", "a", "c", "e", "b", "o", "o", "k">>
tiktok == <<"t", "i", "k", "t", "o", "k">>
threads == <<"t", "h", "r", "e", "a", "d", "s">>
pinterest == <<"p", "i", "n", "t", "e", "r", "e", "s", "t">>
bluesky == <<"b", "l", "u", "e", "s", "k", "y">>

\* the dictionary platform_map, as its (key, value) pairs
platform_map ==
    { <<twitter, twitter>>, <<instagram, instagram>>, <<linkedin, linkedin>>,
      <<facebook, facebook>>, <<tiktok, tiktok>>, <<threads, threads>>,
      <<pinterest, pinterest>>, <<bluesky, bluesky>> }

\* dict.get(key, default)
dict_get(d, key, default) ==
    IF \E kv \in d : kv[1] = key
    THEN (CHOOSE kv \in d : kv[1] = key)[2]
    ELSE default

\* A lookup that lower-cases the key but falls back to the name as given.
target_type_raw_default(p) == dict_get(platform_map, str_lower(p), p)

\* target_type = platform_map.get(platform.lower(), platform.lower())
target_type(p) == dict_get(platform_map, str_lower(p), str_lower(p))

\* decimal digits of a natural number
DigitChars == <<"0", "1", "2", "3", "4", "5", "6", "7", "8", "9">>
RECURSIVE str_int(_)
str_int(n) ==
    IF n < 10 THEN <<DigitChars[n + 1]>>
    ELSE str_int(n \div 10) \o <<DigitChars[(n % 10) + 1]>>

\* `self.api_key.strip() if self.api_key else None`
StripOrNone(v) == IF v = <<>> \/ v = None THEN None ELSE strip(v, Whitespace)

\* An error message that also shows the key that was sent.
AuthMessageWithKey(key, acct, body) ==
    <<"Authentication failed (401). Please verify your BLOTATO_API_KEY and BLOTATO_ACCOUNT_ID.">>
    \o <<"\nAccount ID used: ">> \o acct
    \o <<"\nAPI Key length: ">> \o str_int(IF key = None THEN 0 ELSE Len(key))
    \o <<"\nAPI Key: ">> \o key
    \o <<"\nResponse: ">> \o body
    \o <<"\n\nTip: Make sure your API key and account ID are correct in the .env file.">>
    \o <<"\nCheck your Blotato dashboard: https://blotato.com">>

\* error_msg of the 401 branch; the fixed wording is one token per piece
AuthMessage(key, acct, body) ==
    <<"Authentication failed (401). Please verify your BLOTATO_API_KEY and BLOTATO_ACCOUNT_ID.">>
    \o <<"\nAccount ID used: ">> \o acct
    \o <<"\nAPI Key length: ">> \o str_int(IF key = None THEN 0 ELSE Len(key))
    \o <<"\nResponse: ">> \o body
    \o <<"\n\nTip: Make sure your API key and account ID are correct in the .env file.">>
    \o <<"\nCheck your Blotato dashboard: https://blotato.com">>

\* response.raise_for_status() raises HTTPError
RaisesForStatus(status) == 400 <= status /\ status < 600

\* what publish_post does with the answer of requests.post
PublishOutcome(r, key, acct) ==
    IF ~r.received
    THEN [error |-> [type |-> "RuntimeError",
                     msg |-> <<"Error publishing post: ", "no response">>],
          result |-> NoResult]
    ELSE IF r.status_code = 401
    THEN [error |-> [type |-> "RuntimeError", msg |-> AuthMessage(key, acct, r.text)],
          result |-> NoResult]
    ELSE IF RaisesForStatus(r.status_code)
    THEN [error |-> [type |-> "RuntimeError",
                     msg |-> <<"HTTP error publishing post: ">> \o str_int(r.status_code)
                             \o <<" - Response: ">> \o r.text],
          result |-> NoResult]
    ELSE IF r.is_json
    THEN [error |-> NoError, result |-> [returned |-> TRUE, value |-> r.text]]
    ELSE IF r.json_error = "RequestException"
    THEN [error |-> [type |-> "RuntimeError",
                     msg |-> <<"Error publishing post: ", "JSONDecodeError">>],
          result |-> NoResult]
    ELSE [error |-> [type |-> "ValueError", msg |-> <<"JSONDecodeError">>],
          result |-> NoResult]

\* post_text, as main builds it
post_text(q) ==
    q.quote \o <<"\n", "\n", "--", " ">> \o q.author
    \o (IF q.context # <<>> THEN <<"\n", "\n">> \o q.context ELSE <<>>)

\* the answers requests.post can give
HttpResponses(Statuses, Bodies) ==
    {NoResponse}
    \cup [received : {TRUE}, status_code : Statuses, text : Bodies,
          is_json : {TRUE}, json_error : {"none"}]
    \cup [received : {TRUE}, status_code : Statuses, text : Bodies,
          is_json : {FALSE}, json_error : {"RequestException", "ValueError"}]

\* BlotatoClient.publish_post(text, platform=p), media_urls None
publish_post(Platforms, Responses) ==
    /\ pc = "publish_post"
    /\ \E p \in Platforms, r \in Responses :
          LET api_key_clean == StripOrNone(api_key)
              account_id_clean == StripOrNone(account_id)
              out == PublishOutcome(r, api_key_clean, account_id_clean)
          IN  /\ platform' = p
              /\ payload' = [accountId |-> account_id_clean,
                             text |-> post_text(quote_data),
                             platform |-> p,
                             mediaUrls |-> <<>>,
                             targetType |-> target_type(p)]
              /\ headers' = [Authorization |-> <<"Bearer ">> \o api_key_clean]
              /\ calls' = Append(calls, "requests.post")
              /\ http_reply' = r
              /\ result' = out.result
              /\ error' = out.error
              /\ pc' = IF out.error = NoError THEN "return" ELSE "raised"
    /\ UNCHANGED <<env, gemini_reply, quote_data, text, max_width, lines, background,
                   exports, file_size, warnings, api_key, account_id, exit_code>>

(***************************************************************************)
(* main                                                                    *)
(***************************************************************************)
\* `return 0`
main_return ==
    /\ pc = "return"
    /\ exit_code' = 0
    /\ pc' = "exit"
    /\ UNCHANGED <<env, gemini_reply, quote_data, text, max_width, lines, background,
                   exports, file_size, warnings, api_key, account_id, platform,
                   http_reply, payload, headers, result, error, calls>>

\* A handler that reports the error and still returns 0.
main_except_zero ==
    /\ pc = "raised"
    /\ exit_code' = 0
    /\ pc' = "exit"
    /\ UNCHANGED <<env, gemini_reply, quote_data, text, max_width, lines, background,
                   exports, file_size, warnings, api_key, account_id, platform,
                   http_reply, payload, headers, result, error, calls>>

\* the three except clauses: each prints and returns 1
main_except ==
    /\ pc = "raised"
    /\ exit_code' = 1
    /\ pc' = "exit"
    /\ UNCHANGED <<env, gemini_reply, quote_data, text, max_width, lines, background,
                   exports, file_size, warnings, api_key, account_id, platform,
                   http_reply, payload, headers, result, error, calls>>


(***************************************************************************)
(* Runs.  Every run starts where main() starts; the specifications differ  *)
(* in the sets the environment's answers are drawn from.                   *)
(***************************************************************************)
Idle ==
    /\ gemini_reply = NoReply
    /\ quote_data = NoQuote
    /\ text = <<>>
    /\ max_width = 0
    /\ lines = <<>>
    /\ background = "none"
    /\ exports = <<>>
    /\ file_size = 0
    /\ warnings = {}
    /\ api_key = None
    /\ account_id = None
    /\ platform = <<>>
    /\ http_reply = NoResponse
    /\ payload = NoPayload
    /\ headers = [Authorization |-> <<>>]
    /\ result = NoResult
    /\ error = NoError
    /\ calls = <<>>
    /\ exit_code = -1

GoodEnv == [GEMINI_API_KEY |-> <<"g">>, BLOTATO_API_KEY |-> <<"k">>,
            BLOTATO_ACCOUNT_ID |-> <<"7">>]

GoodObject == [quote |-> <<"x", " ", "x">>, author |-> <<"x">>, context |-> <<"x">>]
GoodReply == [ok |-> TRUE, text |-> Encode(GoodObject)]

\* ---- the whole run, small answers
Envs ==
    [GEMINI_API_KEY : {Absent, <<>>, <<"g">>},
     BLOTATO_API_KEY : {Absent, <<>>, <<"k">>, <<"\"", "k", "\"">>},
     BLOTATO_ACCOUNT_ID : {Absent, <<>>, <<"7">>}]

MainReplies ==
    { NoReply, GoodReply,
      [ok |-> TRUE, text |-> Wrapped("json", Encode(GoodObject))],
      [ok |-> TRUE, text |-> Encode([GoodObject EXCEPT !.author = Absent])],
      [ok |-> TRUE, text |-> <<"x">>] }

MainSizes == {max_size, max_size + 1}

MainResponses == HttpResponses({200, 401, 503}, {<<"k">>})

Init == pc = "init_ai" /\ env \in Envs /\ Idle

Next ==
    \/ AIEngine_init
    \/ ImageGenerator_init
    \/ BlotatoClient_init
    \/ generate_quote(MainReplies)
    \/ generate_quote_card(Backgrounds)
    \/ save_first(MainSizes)
    \/ save_lower(MainSizes)
    \/ upload_media
    \/ publish_post({twitter}, MainResponses)
    \/ main_return
    \/ main_except

Spec == Init /\ [][Next]_vars

\* ---- _wrap_text on every short text
InitWrap ==
    /\ pc = "wrap"
    /\ env = GoodEnv
    /\ gemini_reply = NoReply /\ quote_data = NoQuote
    /\ text \in WrapTexts /\ max_width \in WrapWidths /\ lines = <<>>
    /\ background = "none" /\ exports = <<>> /\ file_size = 0 /\ warnings = {}
    /\ api_key = None /\ account_id = None /\ platform = <<>>
    /\ http_reply = NoResponse /\ payload = NoPayload
    /\ headers = [Authorization |-> <<>>] /\ result = NoResult
    /\ error = NoError /\ calls = <<>> /\ exit_code = -1

NextWrap == wrap_text_call

SpecWrap == InitWrap /\ [][NextWrap]_vars

\* ---- the renderer on every sequence of export sizes
CardSizes == {max_size - 1, max_size, max_size + 1}

CardReplies ==
    { GoodReply,
      [ok |-> TRUE, text |-> Encode([GoodObject EXCEPT !.quote = <<"x">>])],
      [ok |-> TRUE, text |-> Encode([GoodObject EXCEPT !.quote = <<" ", " ">>])] }

InitCard == pc = "init_ai" /\ env = GoodEnv /\ Idle

NextCard ==
    \/ AIEngine_init
    \/ ImageGenerator_init
    \/ BlotatoClient_init
    \/ generate_quote(CardReplies)
    \/ generate_quote_card(Backgrounds)
    \/ save_first(CardSizes)
    \/ save_lower(CardSizes)

SpecCard == InitCard /\ [][NextCard]_vars

\* ---- generate_quote on every short answer
QuoteChars == {Tick, " ", "x"}
QuoteValues == SeqsUpTo(QuoteChars, MaxValueLen)

QuoteObjects ==
    [quote : QuoteValues \cup {Absent},
     author : {Absent, <<"x">>},
     context : {Absent, <<>>, <<"x">>}]

Wrappings == {"bare", "json", "plain", "space"}

QuoteReplies ==
    {NoReply, [ok |-> TRUE, text |-> <<"x">>]}
    \cup {[ok |-> TRUE, text |-> Wrapped(how, Encode(o))] :
            how \in Wrappings, o \in QuoteObjects}

InitQuote == pc = "init_ai" /\ env = GoodEnv /\ Idle

NextQuote ==
    \/ AIEngine_init
    \/ ImageGenerator_init
    \/ BlotatoClient_init
    \/ generate_quote(QuoteReplies)
    \/ generate_quote_card({"none"})
    \/ save_first({max_size})
    \/ main_except

SpecQuote == InitQuote /\ [][NextQuote]_vars

\* ---- the client on every short credential and every answer
RawChars == {"k", " ", "\"", "'"}
RawKeys == SeqsUpTo(RawChars, MaxRawLen)
RawAccounts == SeqsUpTo({"k", " ", "'"}, MaxAccountLen)

Statuses == {101, 200, 201, 304, 401, 404, 503}
Bodies == SeqsUpTo({"k"}, MaxBodyLen)
PublishResponses == HttpResponses(Statuses, Bodies)

InitPublish ==
    /\ pc = "init_ai"
    /\ env \in [GEMINI_API_KEY : {<<"g">>}, BLOTATO_API_KEY : RawKeys,
                BLOTATO_ACCOUNT_ID : RawAccounts]
    /\ Idle

NextPublish ==
    \/ AIEngine_init
    \/ ImageGenerator_init
    \/ BlotatoClient_init
    \/ generate_quote({GoodReply})
    \/ generate_quote_card({"none"})
    \/ save_first({max_size})
    \/ upload_media
    \/ publish_post({twitter}, PublishResponses)
    \/ main_return
    \/ main_except

SpecPublish == InitPublish /\ [][NextPublish]_vars

\* ---- publish_post on every platform name
Cased(name, U) ==
    [i \in 1..Len(name) |-> IF i \in U THEN str_upper(<<name[i]>>)[1] ELSE name[i]]

CaseVariants(name) ==
    {Cased(name, U) : U \in {V \in SUBSET (1..Len(name)) : Cardinality(V) <= MaxUpper}}
    \cup {str_upper(name)}

mastodon == <<"m", "a", "s", "t", "o", "d", "o", "n">>

PlatformNames ==
    {twitter, instagram, linkedin, facebook, tiktok, threads, pinterest, bluesky,
     mastodon, <<"x">>, <<"x", "2">>, <<>>}

PlatformInputs == UNION {CaseVariants(n) : n \in PlatformNames}

TargetResponses == HttpResponses({200, 404}, {<<>>})

InitTarget == pc = "init_ai" /\ env = GoodEnv /\ Idle

NextTarget ==
    \/ AIEngine_init
    \/ ImageGenerator_init
    \/ BlotatoClient_init
    \/ generate_quote({GoodReply})
    \/ generate_quote_card({"none"})
    \/ save_first({max_size})
    \/ upload_media
    \/ publish_post(PlatformInputs, TargetResponses)
    \/ main_return
    \/ main_except

SpecTarget == InitTarget /\ [][NextTarget]_vars


(***************************************************************************)
(* Properties.                                                             *)
(***************************************************************************)
Range(f) == {f[i] : i \in DOMAIN f}

\* the run is past generate_quote_card's return
Rendered == pc = "upload_media"

\* publish_post was called and has come back
Posted == calls # <<>> /\ calls[Len(calls)] = "requests.post"

\* generate_quote was called and has come back
Asked == "generate_content" \in Range(calls)

\* ---- C1.  When every word of the text is at most max_width wide, every line
\* _wrap_text returns is at most max_width wide, and the words of the lines,
\* in order, are the words of the text.
C1_LinesFitAndKeepWords ==
    (pc = "wrapped" /\ \A w \in Range(split(text)) : text_width(w) <= max_width)
    => /\ \A k \in 1..Len(lines) : text_width(lines[k]) <= max_width
       /\ WordsOf(lines) = split(text)

\* ---- C2.  A word wider than max_width is returned as a line of its own,
\* whole, wherever it stands in the text; no word is lost or moved.
C2_WideWordAlone ==
    pc = "wrapped"
    => /\ WordsOf(lines) = split(text)
       /\ \A k \in 1..Len(lines) :
             \A w \in Range(split(lines[k])) :
                text_width(w) > max_width => lines[k] = w

C2_Witness ==
    /\ pc = "wrapped"
    /\ Len(split(text)) = 3
    /\ text_width(split(text)[2]) > max_width
    /\ text_width(split(text)[1]) <= max_width
    /\ lines = split(text)

\* the warnings of the program that are about the size of the file
SizeWarnings == {"Image file size exceeds Twitter limit"}

\* ---- C3.  When generate_quote_card returns, the file is at most 5 MiB or
\* a warning about its size has been printed.

C3_FitsOrWarned ==
    Rendered => (file_size <= 5 * 1024 * 1024 \/ warnings \cap SizeWarnings # {})

QualityOrder == <<95, 85, 75, 65, 55>>

\* ---- C4.  The exports are written in the order 95, 85, 75, 65, 55, each
\* after the first only when all before it exceeded 5 MiB; at the return the
\* last one fits or is the one at quality 55, and it is the file on disk.

C4_FirstFittingQuality ==
    /\ Len(exports) <= 5
    /\ \A i \in 1..Len(exports) : exports[i].quality = QualityOrder[i]
    /\ \A i \in 1..(Len(exports) - 1) : exports[i].size > 5 * 1024 * 1024
    /\ Rendered
       => /\ exports # <<>>
          /\ file_size = exports[Len(exports)].size
          /\ exports[Len(exports)].size <= 5 * 1024 * 1024 \/ Len(exports) = 5

C4_Witness ==
    /\ Rendered
    /\ Len(exports) = 3
    /\ file_size = 5 * 1024 * 1024

Got401 == Posted /\ http_reply.received /\ http_reply.status_code = 401

\* the bearer token of the request, and the values the key has had
SentKey == DropFirst(headers.Authorization, 1)
KeyValues == {env.BLOTATO_API_KEY, api_key, SentKey} \ {<<>>, None}

\* On HTTP 401 publish_post raises and returns nothing; the message carries
\* the account id, the length of the key and the response body.
C5_Raises401 ==
    Got401
    => /\ error.type = "RuntimeError"
       /\ Head(error.msg) = "Authentication failed (401). Please verify your BLOTATO_API_KEY and BLOTATO_ACCOUNT_ID."
       /\ ~result.returned
       /\ Contains(error.msg, <<"\nAccount ID used: ">> \o payload.accountId)
       /\ Contains(error.msg, <<"\nAPI Key length: ">>
                              \o str_int(IF SentKey = None THEN 0 ELSE Len(SentKey)))
       /\ Contains(error.msg, <<"\nResponse: ">> \o http_reply.text)

\* ---- C5, as claimed.  On HTTP 401 publish_post raises, and the message
\* never contains the value of the key, whatever the key, the account id and
\* the response body are.
C5_NeverShowsKey ==
    /\ C5_Raises401
    /\ Got401 => \A key \in KeyValues : ~Contains(error.msg, key)

\* ---- C5, amended.  On HTTP 401 publish_post raises, and the message
\* contains the value of the key only when the account id or the response
\* body contains it.
C5_ShowsKeyOnlyFromInputs ==
    /\ C5_Raises401
    /\ Got401
       => \A key \in KeyValues :
             Contains(error.msg, key)
             => (Contains(payload.accountId, key) \/ Contains(http_reply.text, key))

C5_Witness ==
    /\ Got401
    /\ pc = "exit"
    /\ Len(api_key) > 1
    /\ http_reply.text # <<>>
    /\ payload.accountId # None
    /\ \A key \in KeyValues : ~Contains(error.msg, key)

\* ---- C6.  Every answer whose status is neither 2xx nor 401 makes
\* publish_post raise the HTTP error with the response body; no answer at all
\* makes it raise the request error; it returns a result only for 2xx.
C6_Non2xxFails ==
    Posted
    => /\ (http_reply.received /\ http_reply.status_code \notin 200..299
                               /\ http_reply.status_code # 401)
          => /\ ~result.returned
             /\ error.type = "RuntimeError"
             /\ Head(error.msg) = "HTTP error publishing post: "
             /\ Contains(error.msg, <<" - Response: ">> \o http_reply.text)
       /\ ~http_reply.received
          => /\ ~result.returned
             /\ error.type = "RuntimeError"
             /\ Head(error.msg) = "Error publishing post: "
       /\ result.returned
          => http_reply.received /\ http_reply.status_code \in 200..299

\* ---- C7.  The targetType of the request is the lower-cased platform name,
\* for the eight names of the table and for every other name.
C7_TargetTypeIsLowerCased ==
    Posted
    => /\ payload.targetType = str_lower(platform)
       /\ \A name \in {twitter, instagram, linkedin, facebook, tiktok, threads,
                       pinterest, bluesky} :
             str_lower(platform) = name => payload.targetType = name

C7_Witness ==
    /\ Posted
    /\ platform # str_lower(platform)
    /\ str_lower(platform) = mastodon

\* a credential that is absent or empty
Missing(v) == v = Absent \/ v = <<>>

\* ---- C8.  With one of the three credentials absent or empty, the run ends
\* with a ValueError and exit code 1, and neither the model, nor the renderer,
\* nor the posting API is ever called.

C8_MissingCredentialStopsEarly ==
    (Missing(env.GEMINI_API_KEY) \/ Missing(env.BLOTATO_API_KEY)
                                 \/ Missing(env.BLOTATO_ACCOUNT_ID))
    => /\ calls = <<>>
       /\ pc \in {"init_ai", "init_img", "init_blotato", "raised", "exit"}
       /\ pc \in {"raised", "exit"} => error.type = "ValueError"
       /\ exit_code = IF pc = "exit" THEN 1 ELSE -1

C8_Witness ==
    /\ pc = "exit"
    /\ exit_code = 1
    /\ ~Missing(env.GEMINI_API_KEY)
    /\ ~Missing(env.BLOTATO_API_KEY)
    /\ env.BLOTATO_ACCOUNT_ID = Absent

\* what json.loads returned for the answer received
Parsed == json_loads(CleanResponse(gemini_reply.text))

\* the type of the exception generate_quote raises when the remote call fails
RemoteFailureType == QuoteOutcome(NoReply).error.type

\* ---- C9.  A parsed object with the keys quote and author makes
\* generate_quote return them, the context being "" when the key is absent; a
\* parsed object without one of the two makes it raise an error of another
\* type than the one raised when the remote call fails, and nothing is rendered.

C9_RequiresQuoteAndAuthor ==
    (Asked /\ gemini_reply.ok /\ Parsed.ok)
    => IF Parsed.obj.quote # Absent /\ Parsed.obj.author # Absent
       THEN /\ error = NoError
            /\ quote_data = [quote |-> Parsed.obj.quote,
                             author |-> Parsed.obj.author,
                             context |-> IF Parsed.obj.context = Absent
                                         THEN <<>> ELSE Parsed.obj.context]
       ELSE /\ error.type \notin {"none", RemoteFailureType}
            /\ "generate_quote_card" \notin Range(calls)

\* ---- C10.  For an answer that is a JSON object with the three keys, bare or
\* inside a json fence, generate_quote returns the object the text encodes.
C10_FencesLeaveContentAlone ==
    \A o \in QuoteObjects : \A how \in {"bare", "json"} :
        (/\ Asked
         /\ Absent \notin {o.quote, o.author, o.context}
         /\ gemini_reply = [ok |-> TRUE, text |-> Wrapped(how, Encode(o))])
        => (error = NoError /\ quote_data = o)

\* the characters a credential may be wrapped in
Surrounding == Whitespace \cup {"\"", "'"}

\* s neither starts nor ends with a whitespace or quote character
Trimmed(s) == s = <<>> \/ (Head(s) \notin Surrounding /\ s[Len(s)] \notin Surrounding)

\* BlotatoClient.__init__ has returned
Constructed == api_key # None /\ account_id # None

\* the two halves of C11
C11_HoldsNoEmptyCredential == Constructed => (api_key # <<>> /\ account_id # <<>>)
C11_SendsTrimmedValues == Posted => (Trimmed(SentKey) /\ Trimmed(payload.accountId))

\* ---- C11.  Whatever whitespace and quote characters surround the key and
\* the account id in the environment, the bearer token and the accountId of
\* the request neither start nor end with one, and a constructed client holds
\* no empty key and no empty account id.
C11_CredentialsAreCleaned ==
    C11_HoldsNoEmptyCredential /\ C11_SendsTrimmedValues

\* the calls of the three stages, in the order main makes them
StageCalls == <<"generate_content", "generate_quote_card", "requests.post">>

\* generate_quote returned a quote
QuoteReturned == gemini_reply.ok /\ quote_data # NoQuote

\* generate_quote_card left its loop and returned
CardReturned ==
    /\ exports # <<>>
    /\ file_size = exports[Len(exports)].size
    /\ Fits(file_size) \/ Len(exports) = 1 + Len(LowerQualities)
    /\ pc \notin {"save", "reexport"}

\* in every state of the run
C12_Order ==
    /\ Len(calls) <= 3
    /\ \A i \in 1..Len(calls) : calls[i] = StageCalls[i]
    /\ Len(calls) >= 2 => QuoteReturned
    /\ Len(calls) = 3 => CardReturned
    /\ error # NoError => pc \in {"raised", "exit"}
    /\ exit_code = IF pc # "exit" THEN -1
                   ELSE IF QuoteReturned /\ CardReturned /\ result.returned THEN 0
                   ELSE 1
    /\ exit_code = 0 => (error = NoError /\ Len(calls) = 3)
    /\ exit_code = 1 => error # NoError

\* in every step of the run
C12_FailureEndsRun ==
    error # NoError
    => /\ pc' = "exit"
       /\ exit_code' = 1
       /\ UNCHANGED <<calls, exports, quote_data, result, error>>

\* ---- C12.  The run calls the model, the renderer and the posting API in
\* this order and each at most once; the renderer only after a quote was
\* returned, the posting API only after the renderer returned; once a stage
\* has raised, the only step left is the return of 1; and main returns 0
\* exactly when the three stages succeeded, 1 otherwise.
C12_StagesInOrder == [](C12_Order) /\ [][C12_FailureEndsRun]_vars

C12_Witness ==
    /\ pc = "exit"
    /\ exit_code = 0
    /\ calls = StageCalls
    /\ Len(exports) > 1

====
